---- MODULE Spec2Model ----
(***************************************************************************)
(* Model of the betting mini-game engine (game_logic.py, models.py,        *)
(* exceptions.py).  One BettingGame instance; every public method is one   *)
(* atomic action (the engine is single-threaded and synchronous).          *)
(*                                                                         *)
(* TLA+ strings are ASCII here, so the Chinese wire tags are written as:   *)
(*   "guess_number" for the tag "cai shu zi"  (guess-the-number)           *)
(*   "guess_parity" for the tag "cai dan shuang" (guess-odd-or-even)       *)
(*   "odd" / "even" for the outcomes "dan" / "shuang"                      *)
(* Python values of mixed type (int, str, None) are records                *)
(* [kind, n, s] so that Python's == is plain record equality.              *)
(* The dicts players / player_bets are functions on their key sets; the    *)
(* insertion order of the keys is not part of the model.                   *)
(***************************************************************************)
EXTENDS Integers, FiniteSets, Sequences, TLC

\* the fields of BettingGame.state, and `last`: the most recent call made on
\* the instance (method, arguments that are not kept in the state, and the
\* exception class it raised, NoError when it returned), and `ret`: the value
\* that call returned (None when it returned nothing or raised), and `shown`:
\* what the host has rendered with message_utils since that call (NotShown
\* until it renders something)
VARIABLES status, creator_id, players, bet_type, bet_content, winning_result,
          player_bets, last, ret, shown

state == <<status, creator_id, players, bet_type, bet_content, winning_result,
           player_bets>>
vars == <<status, creator_id, players, bet_type, bet_content, winning_result,
          player_bets, last, ret, shown>>

---------------------------------------------------------------------------
(* Bounds and input sets *)

\* numbers offered as min / max and as numeric bets are 1..MaxNum
MaxNum == 2

Nums == 1..MaxNum

\* player ids the host may pass (opaque strings; one numeric, one not)
PlayerIds == {"111", "ai-1", "222"}

\* (player_name, is_ai) arguments tried: a human profile and an AI profile
JoinProfiles == {<<"A", FALSE>>, <<"B", TRUE>>}

---------------------------------------------------------------------------
(* models.py *)

MIN_PLAYERS == 2

GameStatus == {"WAITING", "PLAYING", "ENDED"}

\* the value auto() gives each member, in declaration order
StatusValue(s) == CASE s = "WAITING" -> 1 [] s = "PLAYING" -> 2 [] s = "ENDED" -> 3

---------------------------------------------------------------------------
(* exceptions.py and the imports of game_logic.py *)

\* every class deriving from GameError (GameError included)
GameErrorKinds == {"GameError", "GameNotFoundError", "PlayerNotInGameError",
                   "PlayerAlreadyJoinedError", "GameNotWaitingError",
                   "GameNotPlayingError", "NotEnoughPlayersError",
                   "NotPlayersTurnError", "InvalidActionError", "InvalidBetError"}

\* the exception names bound in game_logic's module namespace
ImportedNames == {"GameError", "PlayerNotInGameError", "NotPlayersTurnError",
                  "GameNotWaitingError", "GameNotPlayingError",
                  "NotEnoughPlayersError"}

\* `raise Name(...)`: evaluating an unbound global name raises NameError
\* before any exception object of that class is built
Raise(name) == IF name \in ImportedNames THEN name ELSE "NameError"

NoError == "none"

---------------------------------------------------------------------------
(* Python values *)

NoneV == [kind |-> "none", n |-> 0, s |-> ""]
IntV(i) == [kind |-> "int", n |-> i, s |-> ""]
StrV(t) == [kind |-> "str", n |-> 0, s |-> t]

GuessNumber == "guess_number"
GuessParity == "guess_parity"
OtherType == "other"

EmptyDict == [k \in {} |-> 0]

\* bet_params tried for guess-the-number: {} and every {min, max} over Nums
\* (min > max included)
NumberParams == {EmptyDict} \cup [{"min", "max"} -> Nums]

\* (bet_type, bet_params) arguments tried: guess-the-number with each of
\* NumberParams, guess-odd-or-even and an unknown tag with no parameters
StartArgs == {<<GuessNumber, p>> : p \in NumberParams}
                 \cup {<<GuessParity, EmptyDict>>, <<OtherType, EmptyDict>>}

\* bet arguments tried: every number of Nums, a parity tag, and None
BetValues == {IntV(i) : i \in Nums} \cup {StrV("odd"), NoneV}

\* dict[key] = value
DictPut(d, key, value) ==
    [k \in DOMAIN d \cup {key} |-> IF k = key THEN value ELSE d[k]]

---------------------------------------------------------------------------
(* BettingGame.__init__ *)

\* the record kept in `last` for a call
Call(op, player_id, player_name, is_ai, error) ==
    [op |-> op, player_id |-> player_id, player_name |-> player_name,
     is_ai |-> is_ai, error |-> error]

\* nothing rendered yet
NotShown == [by |-> "", out |-> <<>>]

Init ==
    /\ status = "WAITING"
    /\ creator_id = NoneV
    /\ players = EmptyDict
    /\ bet_type = NoneV
    /\ bet_content = EmptyDict
    /\ winning_result = NoneV
    /\ player_bets = EmptyDict
    /\ last = Call("__init__", "", "", FALSE, NoError)
    /\ ret = NoneV
    /\ shown = NotShown

---------------------------------------------------------------------------
(* BettingGame.add_player *)

\* variant: the status check lets a join through while PLAYING
add_player_error_lax(st) ==
    IF st = "ENDED" THEN Raise("GameNotWaitingError") ELSE NoError

\* the status check that opens add_player
add_player_error(st) ==
    IF st # "WAITING" THEN Raise("GameNotWaitingError") ELSE NoError

\* variant: no membership test, a repeated join overwrites the record
joined_players_overwrite(plrs, player_id, player_name, is_ai) ==
    DictPut(plrs, player_id, [name |-> player_name, is_ai |-> is_ai])

\* players after the membership test: an enrolled id returns early
joined_players(plrs, player_id, player_name, is_ai) ==
    IF player_id \in DOMAIN plrs THEN plrs
    ELSE DictPut(plrs, player_id, [name |-> player_name, is_ai |-> is_ai])

add_player(player_id, player_name, is_ai) ==
    /\ last' = Call("add_player", player_id, player_name, is_ai,
                    add_player_error(status))
    /\ ret' = NoneV
    /\ shown' = NotShown
    /\ IF add_player_error(status) # NoError
       THEN UNCHANGED state
       ELSE /\ players' = joined_players(players, player_id, player_name, is_ai)
            /\ UNCHANGED <<status, creator_id, bet_type, bet_content,
                           winning_result, player_bets>>

---------------------------------------------------------------------------
(* BettingGame._generate_winning_result *)

\* the exception the draw raises, if any: a missing key is looked up first
\* ("min", then "max"), then random.randint rejects an empty range
GenerateError(bt, bc) ==
    IF bt = StrV(GuessNumber)
    THEN IF "min" \notin DOMAIN bc \/ "max" \notin DOMAIN bc THEN "KeyError"
         ELSE IF bc["min"] > bc["max"] THEN "ValueError"
         ELSE NoError
    ELSE NoError

\* variant: the upper bound of the draw is off by one
GenerateResults_past_max(bt, bc, old) ==
    IF bt = StrV(GuessNumber) THEN {IntV(w) : w \in bc["min"]..(bc["max"] + 1)}
    ELSE IF bt = StrV(GuessParity) THEN {StrV("odd"), StrV("even")}
    ELSE {old}

\* the values winning_result can hold after a draw that does not raise
GenerateResults(bt, bc, old) ==
    IF bt = StrV(GuessNumber) THEN {IntV(w) : w \in bc["min"]..bc["max"]}
    ELSE IF bt = StrV(GuessParity) THEN {StrV("odd"), StrV("even")}
    ELSE {old}

---------------------------------------------------------------------------
(* BettingGame.start_game *)

\* variant: off by one, MIN_PLAYERS enrolled players are not enough
enough_players_strict(plrs) == Cardinality(DOMAIN plrs) > MIN_PLAYERS

enough_players(plrs) == Cardinality(DOMAIN plrs) >= MIN_PLAYERS

\* variant: a finished game can be started again
start_game_error_restart(st, plrs) ==
    IF st = "PLAYING" THEN Raise("InvalidActionError")
    ELSE IF ~enough_players(plrs) THEN Raise("NotEnoughPlayersError")
    ELSE NoError

\* the two checks that open start_game
start_game_error(st, plrs) ==
    IF st # "WAITING" THEN Raise("InvalidActionError")
    ELSE IF ~enough_players(plrs) THEN Raise("NotEnoughPlayersError")
    ELSE NoError

\* the payload start_game returns; player_names is kept per player id, the
\* order of the list not being modelled
start_game_return(bt, bet_params, plrs) ==
    [success |-> TRUE, bet_type |-> StrV(bt), bet_params |-> bet_params,
     player_names |-> [p \in DOMAIN plrs |-> plrs[p].name]]

\* bet_type and bet_content are assigned first, then the draw is made (and
\* may raise), then the status is set
start_game(bt, bet_params) ==
    IF start_game_error(status, players) # NoError
    THEN /\ last' = Call("start_game", "", "", FALSE,
                         start_game_error(status, players))
         /\ ret' = NoneV
         /\ shown' = NotShown
         /\ UNCHANGED state
    ELSE /\ shown' = NotShown
         /\ bet_type' = StrV(bt)
         /\ bet_content' = bet_params
         /\ last' = Call("start_game", "", "", FALSE,
                         GenerateError(bet_type', bet_content'))
         /\ IF GenerateError(bet_type', bet_content') # NoError
            THEN /\ ret' = NoneV
                 /\ UNCHANGED <<status, winning_result>>
            ELSE /\ winning_result' \in
                        GenerateResults(bet_type', bet_content', winning_result)
                 /\ status' = "PLAYING"
                 /\ ret' = start_game_return(bt, bet_params, players)
         /\ UNCHANGED <<creator_id, players, player_bets>>

---------------------------------------------------------------------------
(* BettingGame._check_is_playing, _end_game, process_bet *)

\* variant: only an ENDED game refuses bets
check_is_playing_error_lax(st) ==
    IF st = "ENDED" THEN Raise("GameNotPlayingError") ELSE NoError

check_is_playing_error(st) ==
    IF st # "PLAYING" THEN Raise("GameNotPlayingError") ELSE NoError

\* variant: the guess-odd-or-even branch is missing
end_game_results_number_only(bets, plrs, bt, wr) ==
    [p \in DOMAIN bets |->
        [name |-> plrs[p].name,
         is_ai |-> plrs[p].is_ai,
         is_win |-> IF bt = StrV(GuessNumber) THEN bets[p] = wr ELSE FALSE]]

\* variant: the bet is compared with winning_result whatever the bet type
end_game_results_any_type(bets, plrs, bt, wr) ==
    [p \in DOMAIN bets |->
        [name |-> plrs[p].name,
         is_ai |-> plrs[p].is_ai,
         is_win |-> bets[p] = wr]]

\* the results mapping _end_game builds from the recorded bets
end_game_results(bets, plrs, bt, wr) ==
    [p \in DOMAIN bets |->
        [name |-> plrs[p].name,
         is_ai |-> plrs[p].is_ai,
         is_win |-> IF bt = StrV(GuessNumber) THEN bets[p] = wr
                    ELSE IF bt = StrV(GuessParity) THEN bets[p] = wr
                    ELSE FALSE]]

\* variant: the round resolves one bet too late
all_bets_in_late(bets, plrs) == Cardinality(DOMAIN bets) > Cardinality(DOMAIN plrs)

\* variant: the round resolves as soon as MIN_PLAYERS bets are in
all_bets_in_min_players(bets, plrs) == Cardinality(DOMAIN bets) >= MIN_PLAYERS

\* the test that decides whether the bet just recorded resolves the round
all_bets_in(bets, plrs) == Cardinality(DOMAIN bets) = Cardinality(DOMAIN plrs)

\* variant: the enrolment check is missing
process_bet_error_nomember(st, plrs, bets, player_id) ==
    IF check_is_playing_error(st) # NoError THEN check_is_playing_error(st)
    ELSE IF player_id \in DOMAIN bets THEN Raise("InvalidActionError")
    ELSE NoError

\* variant: the enrolment check comes before the status check
process_bet_error_member_first(st, plrs, bets, player_id) ==
    IF player_id \notin DOMAIN plrs THEN Raise("PlayerNotInGameError")
    ELSE IF check_is_playing_error(st) # NoError THEN check_is_playing_error(st)
    ELSE IF player_id \in DOMAIN bets THEN Raise("InvalidActionError")
    ELSE NoError

\* the three checks that open process_bet
process_bet_error(st, plrs, bets, player_id) ==
    IF check_is_playing_error(st) # NoError THEN check_is_playing_error(st)
    ELSE IF player_id \notin DOMAIN plrs THEN Raise("PlayerNotInGameError")
    ELSE IF player_id \in DOMAIN bets THEN Raise("InvalidActionError")
    ELSE NoError

\* the payload process_bet returns: with a results key when this bet
\* resolved the round, without one otherwise
process_bet_return(player_id, bet, plrs, ended, results) ==
    IF ended
    THEN [success |-> TRUE, action |-> "bet", player_id |-> player_id,
          player_name |-> plrs[player_id].name, bet |-> bet,
          game_ended |-> TRUE, results |-> results]
    ELSE [success |-> TRUE, action |-> "bet", player_id |-> player_id,
          player_name |-> plrs[player_id].name, bet |-> bet,
          game_ended |-> FALSE]

\* what process_bet raises: a failed check, or the KeyError of the name
\* lookup that follows the recording of the bet
process_bet_raised(st, plrs, bets, player_id) ==
    IF process_bet_error(st, plrs, bets, player_id) # NoError
    THEN process_bet_error(st, plrs, bets, player_id)
    ELSE IF player_id \notin DOMAIN plrs THEN "KeyError"
    ELSE NoError

process_bet(player_id, bet) ==
    /\ last' = Call("process_bet", player_id, "", FALSE,
                    process_bet_raised(status, players, player_bets, player_id))
    /\ shown' = NotShown
    /\ IF process_bet_error(status, players, player_bets, player_id) # NoError
       THEN /\ ret' = NoneV
            /\ UNCHANGED state
       ELSE IF player_id \notin DOMAIN players
       THEN /\ player_bets' = DictPut(player_bets, player_id, bet)
            /\ ret' = NoneV
            /\ UNCHANGED <<status, creator_id, players, bet_type, bet_content,
                           winning_result>>
       ELSE /\ player_bets' = DictPut(player_bets, player_id, bet)
            /\ status' = IF all_bets_in(player_bets', players)
                         THEN "ENDED" ELSE status
            /\ ret' = process_bet_return(player_id, bet, players,
                           all_bets_in(player_bets', players),
                           end_game_results(player_bets', players, bet_type,
                                            winning_result))
            /\ UNCHANGED <<creator_id, players, bet_type, bet_content,
                           winning_result>>

---------------------------------------------------------------------------
(* The host calls the three operations in any order with any arguments *)

AddPlayer ==
    \E player_id \in PlayerIds, profile \in JoinProfiles :
        add_player(player_id, profile[1], profile[2])

StartGame ==
    \E args \in StartArgs : start_game(args[1], args[2])

ProcessBet ==
    \E player_id \in PlayerIds, bet \in BetValues : process_bet(player_id, bet)

Next == AddPlayer \/ StartGame \/ ProcessBet

Spec == Init /\ [][Next]_vars

---------------------------------------------------------------------------
(* message_utils.py: texts are sequences of string pieces, the fixed      *)
(* Chinese templates being written as ASCII descriptions                   *)

\* str(error) of the exception the last call raised: the f-string message
\* of the engine's own errors, Python's message otherwise
ErrorText(call, st) ==
    CASE call.error = "GameNotWaitingError" ->
            <<"game in progress (", st, "), cannot join">>
      [] call.error = "NotEnoughPlayersError" ->
            <<"at least MIN_PLAYERS players are needed to start">>
      [] call.error = "GameNotPlayingError" ->
            <<"game must be PLAYING (now: ", st, ")">>
      [] call.error = "PlayerNotInGameError" ->
            <<"player ", call.player_id, " is not in this round">>
      [] call.error = "NameError" ->
            <<"name 'InvalidActionError' is not defined">>
      [] call.error = "KeyError" -> <<"'min'">>
      [] call.error = "ValueError" -> <<"empty range for randrange()">>
      [] OTHER -> <<>>

OperationFailedPrefix == "operation failed: "
InternalErrorPrefix == "internal error: "
InternalErrorText == "unexpected problem, contact the administrator. error type: "

\* build_error_message: isinstance(error, GameError) picks the rendering
build_error_message(kind, text) ==
    IF kind \in GameErrorKinds
    THEN <<OperationFailedPrefix>> \o text
    ELSE <<InternalErrorPrefix, InternalErrorText, kind>>

\* the host passes the exception of the last call to build_error_message
BuildErrorMessage ==
    /\ last.error # NoError
    /\ shown = NotShown
    /\ shown' = [by |-> "build_error_message",
                 out |-> build_error_message(last.error, ErrorText(last, status))]
    /\ UNCHANGED <<state, last, ret>>

\* message components of the host framework: Comp.Plain(text), Comp.At(qq)
Plain(text) == [comp |-> "Plain", text |-> text, qq |-> 0]
At(qq) == [comp |-> "At", text |-> <<>>, qq |-> qq]

\* the characters of the player ids in use
Chars(str) ==
    CASE str = "111" -> <<"1", "1", "1">>
      [] str = "222" -> <<"2", "2", "2">>
      [] str = "ai-1" -> <<"a", "i", "-", "1">>
      [] OTHER -> <<>>

DigitChars == <<"0", "1", "2", "3", "4", "5", "6", "7", "8", "9">>

\* str.isdigit(): not empty and every character a digit
isdigit(str) ==
    /\ Chars(str) # <<>>
    /\ \A i \in DOMAIN Chars(str) :
           \E d \in DOMAIN DigitChars : DigitChars[d] = Chars(str)[i]

\* int(str) of a string of digits
RECURSIVE CharsToInt(_)
CharsToInt(chars) ==
    IF chars = <<>> THEN 0
    ELSE CharsToInt(SubSeq(chars, 1, Len(chars) - 1)) * Len(DigitChars)
            + (CHOOSE d \in DOMAIN DigitChars :
                   DigitChars[d] = chars[Len(chars)]) - 1

\* _get_player_mention: an at-mention and "(name)" for a human with a
\* numeric id, the robot tag and the name for an AI, the name otherwise
get_player_mention(player_id, player_name, is_ai) ==
    IF ~is_ai /\ isdigit(player_id)
    THEN <<At(CharsToInt(Chars(player_id))), Plain(<<"(", player_name, ")">>)>>
    ELSE IF is_ai THEN <<Plain(<<"robot ", player_name>>)>>
    ELSE <<Plain(<<player_name>>)>>

\* truth value of a dict in a Python condition: true unless it is empty
DictIsTrue(d) == DOMAIN d # {}

\* build_bet_result_messages: the loop runs over results.items(), so the
\* value tested for the text is the whole entry of the player (a dict);
\* one message per player id, the order of the list not being modelled
build_bet_result_messages(results) ==
    [p \in DOMAIN results |->
        <<Plain(<<"-> ">>)>>
            \o get_player_mention(p, results[p].name, results[p].is_ai)
            \o <<Plain(<<" ", IF DictIsTrue(results[p]) THEN "guessed right"
                                                        ELSE "guessed wrong",
                         "!">>)>>]

\* the host passes the results of the resolving process_bet call to
\* build_bet_result_messages
BuildBetResultMessages ==
    /\ last.op = "process_bet" /\ last.error = NoError
    /\ ret.game_ended
    /\ shown = NotShown
    /\ shown' = [by |-> "build_bet_result_messages",
                 out |-> build_bet_result_messages(ret.results)]
    /\ UNCHANGED <<state, last, ret>>

\* the Python value of a GameStatus member (never equal to a str)
StatusV(st) == [kind |-> "GameStatus", n |-> StatusValue(st), s |-> st]

\* the engine's state dict as the host passes it on
GameDict ==
    [status |-> StatusV(status), players |-> players, bet_type |-> bet_type,
     bet_content |-> bet_content]

\* "None" stands for a requesting_player_id of None
NoRequester == "None"
Requesters == PlayerIds \cup {NoRequester}

\* f"{value}" of a bet type: the tag, or None
FormatValue(v) == IF v = NoneV THEN "None" ELSE v.s

\* bet_content.get(key, unknown)
FormatBound(bc, key) == IF key \in DOMAIN bc THEN ToString(bc[key]) ELSE "unknown"

\* the lines of the waiting branch's player list, per player id
PlayerLines(plrs) ==
    [p \in DOMAIN plrs |->
        <<"- ", plrs[p].name, IF plrs[p].is_ai THEN " [AI]" ELSE "">>]

\* build_game_status_message: both tests compare game['status'] with the
\* str 'waiting'
build_game_status_message(game, requesting_player_id) ==
    LET waiting == game.status = StrV("waiting")
        header == <<"game status, status: ",
                    IF waiting THEN "waiting for bets" ELSE "game over">>
        details ==
            <<"bet type: ", FormatValue(game.bet_type)>>
              \o (IF game.bet_type = StrV(GuessNumber)
                  THEN <<"number range: ", FormatBound(game.bet_content, "min"),
                         " to ", FormatBound(game.bet_content, "max")>>
                  ELSE IF game.bet_type = StrV(GuessParity)
                  THEN <<"guess odd or even">>
                  ELSE <<>>)
        requesting ==
            IF requesting_player_id # NoRequester
                  /\ requesting_player_id \in DOMAIN game.players
            THEN <<Plain(<<"you take part in the game">>)>>
                   \o get_player_mention(
                          requesting_player_id,
                          game.players[requesting_player_id].name,
                          game.players[requesting_player_id].is_ai)
            ELSE <<>>
    IN  IF waiting
        THEN <<Plain(header
                       \o <<"players (",
                            ToString(Cardinality(DOMAIN game.players)), "):",
                            IF DOMAIN game.players # {}
                            THEN PlayerLines(game.players) ELSE "none yet",
                            "waiting for everyone to bet">>)>>
        ELSE <<Plain(header \o details)>> \o requesting

\* the host passes the engine's state to build_game_status_message
BuildGameStatusMessage ==
    /\ shown = NotShown
    /\ \E requesting_player_id \in Requesters :
          shown' = [by |-> "build_game_status_message",
                    out |-> build_game_status_message(GameDict,
                                                      requesting_player_id)]
    /\ UNCHANGED <<state, last, ret>>

---------------------------------------------------------------------------
(* The host calls the engine and renders what it gets with message_utils *)

HostNext ==
    \/ AddPlayer
    \/ StartGame
    \/ ProcessBet
    \/ BuildErrorMessage
    \/ BuildBetResultMessages
    \/ BuildGameStatusMessage

HostSpec == Init /\ [][HostNext]_vars

\* The behaviours in which the host keeps delivering every player's
\* process_bet calls (nothing in the engine delays or drops a call).
\* process_bet stores the bet without looking at it, so two bet values
\* (a parity tag and None) stand for all of them here.
FairBetValues == {StrV("odd"), NoneV}

FairProcessBet(player_id) ==
    \E bet \in FairBetValues : process_bet(player_id, bet)

FairNext ==
    AddPlayer \/ StartGame \/ \E player_id \in PlayerIds : FairProcessBet(player_id)

FairSpec ==
    /\ Init
    /\ [][FairNext]_vars
    /\ \A player_id \in PlayerIds : WF_vars(FairProcessBet(player_id))

---------------------------------------------------------------------------
(* Properties *)

NumPlayers == Cardinality(DOMAIN players)
NumBets == Cardinality(DOMAIN player_bets)

\* C1: between operations the round is never PLAYING with as many recorded
\* bets as enrolled players, and never ENDED with a different number of
\* bets than players.
C1_EndedExactlyWhenAllBet ==
    /\ status = "PLAYING" => NumBets # NumPlayers
    /\ status = "ENDED" => NumBets = NumPlayers

\* C1 witness: the last of three players' bets has just resolved the round.
C1_Witness ==
    /\ status = "ENDED"
    /\ last.op = "process_bet" /\ last.error = NoError
    /\ NumPlayers = 3 /\ NumBets = 3

\* C2: the status starts at WAITING and every step keeps it or advances it
\* by exactly one stage (WAITING -> PLAYING -> ENDED); it never goes back
\* and never skips PLAYING.
C2_StatusOnlyForward ==
    /\ status = "WAITING"
    /\ [][StatusValue(status') = StatusValue(status)
            \/ StatusValue(status') = StatusValue(status) + 1]_vars

\* C2 witness: a game that has gone through both transitions.
C2_Witness ==
    /\ status = "ENDED"
    /\ last.op = "process_bet" /\ last.error = NoError

\* C3: a call that ends by raising leaves every field of the game state as
\* it was before the call.
C3_ErrorLeavesStateUnchanged ==
    [][last'.error # NoError => state' = state]_vars

\* C4: bet_type and winning_result are both None while WAITING and both
\* set in PLAYING and ENDED.
C4_TypeAndResultSetAfterWaiting ==
    /\ status = "WAITING" => (bet_type = NoneV /\ winning_result = NoneV)
    /\ status # "WAITING" => (bet_type # NoneV /\ winning_result # NoneV)

\* C5: the ids with a recorded bet are a subset of the enrolled ids.
C5_BetsSubsetOfPlayers == DOMAIN player_bets \subseteq DOMAIN players

\* C5 witness: a bet has been accepted while another enrolled player has
\* not bet yet.
C5_Witness ==
    /\ last.op = "process_bet" /\ last.error = NoError
    /\ player_bets # EmptyDict
    /\ DOMAIN player_bets # DOMAIN players

\* C6: process_bet in status PLAYING for a player who already has a recorded
\* bet raises InvalidActionError (a GameError), and a recorded bet is never
\* changed or removed by any later step.
C6_DoubleBetIsInvalidAction ==
    [][/\ (last'.op = "process_bet" /\ status = "PLAYING"
              /\ last'.player_id \in DOMAIN player_bets)
          => (last'.error = "InvalidActionError"
                /\ last'.error \in GameErrorKinds)
       /\ \A p \in DOMAIN player_bets :
              p \in DOMAIN player_bets' /\ player_bets'[p] = player_bets[p]]_vars

\* C7: start_game in status PLAYING or ENDED raises InvalidActionError (a
\* GameError other than GameNotWaitingError), whatever the number of
\* enrolled players, and leaves the state unchanged.
C7_StartWhenNotWaitingIsInvalidAction ==
    [][(last'.op = "start_game" /\ status # "WAITING")
          => (/\ last'.error = "InvalidActionError"
              /\ last'.error \in GameErrorKinds
              /\ state' = state)]_vars

\* C8: add_player in status PLAYING or ENDED raises GameNotWaitingError for
\* every player id and leaves players unchanged; no step taken outside
\* WAITING changes players.
C8_JoinAfterStartRefused ==
    [][/\ (last'.op = "add_player" /\ status # "WAITING")
          => (last'.error = "GameNotWaitingError" /\ players' = players)
       /\ status # "WAITING" => players' = players]_vars

\* C8 witness: a join by an id that is not enrolled has been refused while
\* the round is PLAYING.
C8_Witness ==
    /\ status = "PLAYING"
    /\ last.op = "add_player" /\ last.error = "GameNotWaitingError"
    /\ last.player_id \notin DOMAIN players

\* C9: add_player during WAITING with an id that is already enrolled does
\* not raise and leaves players as it was: one entry for the id, with the
\* name and is_ai flag stored by the first join.
C9_RepeatedJoinIsNoOp ==
    [][(last'.op = "add_player" /\ status = "WAITING"
            /\ last'.player_id \in DOMAIN players)
          => (last'.error = NoError /\ players' = players)]_vars

\* C9 witness: a repeated join that supplied another name and another flag
\* has returned, and the stored record is still the first one.
C9_Witness ==
    /\ status = "WAITING"
    /\ last.op = "add_player" /\ last.error = NoError
    /\ last.player_id \in DOMAIN players
    /\ players[last.player_id].name # last.player_name
    /\ players[last.player_id].is_ai # last.is_ai

\* the arguments of the start_game call of this step make the draw raise:
\* guess-the-number without min or max, or with min > max
C10_DrawRaises ==
    /\ bet_type' = StrV(GuessNumber)
    /\ \/ "min" \notin DOMAIN bet_content'
       \/ "max" \notin DOMAIN bet_content'
       \/ bet_content'["min"] > bet_content'["max"]

\* C10 as stated: start_game in WAITING moves to PLAYING if and only if
\* at least MIN_PLAYERS players are enrolled, and with fewer it raises
\* NotEnoughPlayersError and the status stays WAITING.
C10_StartIffEnoughPlayers ==
    [][(last'.op = "start_game" /\ status = "WAITING")
          => /\ (status' = "PLAYING" /\ last'.error = NoError)
                    <=> NumPlayers >= MIN_PLAYERS
             /\ NumPlayers < MIN_PLAYERS
                    => (last'.error = "NotEnoughPlayersError"
                          /\ status' = "WAITING")]_vars

\* C10 amended: start_game in WAITING moves to PLAYING if and only if at
\* least MIN_PLAYERS players are enrolled and the draw of the winning result
\* does not raise; with fewer players it raises NotEnoughPlayersError and
\* leaves the whole state as it was (so later joins and a later start_game
\* proceed as if it had not been called); whenever it fails the status stays
\* WAITING.
C10_StartIffEnoughPlayersAndDraw ==
    [][(last'.op = "start_game" /\ status = "WAITING")
          => /\ (status' = "PLAYING" /\ last'.error = NoError)
                    <=> (NumPlayers >= MIN_PLAYERS /\ ~C10_DrawRaises)
             /\ NumPlayers < MIN_PLAYERS
                    => (last'.error = "NotEnoughPlayersError" /\ state' = state)
             /\ last'.error # NoError => status' = "WAITING"]_vars

\* C10 witness: start_game has just succeeded with exactly MIN_PLAYERS
\* enrolled players.
C10_Witness ==
    /\ status = "PLAYING"
    /\ last.op = "start_game" /\ last.error = NoError
    /\ NumPlayers = MIN_PLAYERS

\* C11: in a round with n enrolled players, each of the first n-1 accepted
\* bets returns game_ended = FALSE without a results key and leaves the
\* status PLAYING; the n-th returns game_ended = TRUE with results keyed by
\* exactly the enrolled players, and the status becomes ENDED.
C11_LastBetResolves ==
    [][(last'.op = "process_bet" /\ last'.error = NoError)
          => IF NumBets + 1 < NumPlayers
             THEN /\ ret'.game_ended = FALSE
                  /\ "results" \notin DOMAIN ret'
                  /\ status' = "PLAYING"
             ELSE /\ NumBets + 1 = NumPlayers
                  /\ ret'.game_ended = TRUE
                  /\ "results" \in DOMAIN ret'
                  /\ DOMAIN ret'.results = DOMAIN players
                  /\ status' = "ENDED"]_vars

\* C11 witness: the third of three players' bets has returned the results.
C11_Witness ==
    /\ status = "ENDED"
    /\ last.op = "process_bet" /\ last.error = NoError
    /\ NumPlayers = 3
    /\ ret.game_ended = TRUE
    /\ DOMAIN ret.results = DOMAIN players

\* the call that has just returned resolved the round
Resolved ==
    /\ last.op = "process_bet" /\ last.error = NoError
    /\ ret.game_ended = TRUE

\* C12 as stated: in the results returned at resolution, is_win of every
\* player is true exactly when the recorded bet equals winning_result, and
\* name and is_ai are the ones stored when the player joined.
C12_WinIffBetEqualsResult ==
    Resolved =>
        \A p \in DOMAIN ret.results :
            /\ ret.results[p].is_win = (player_bets[p] = winning_result)
            /\ ret.results[p].name = players[p].name
            /\ ret.results[p].is_ai = players[p].is_ai

\* C12 amended: the equivalence holds when bet_type is one of the two
\* recognised tags; for any other bet_type is_win is false for every
\* player; name and is_ai are the stored ones in every case.
C12_WinIffBetEqualsResultKnownType ==
    Resolved =>
        \A p \in DOMAIN ret.results :
            /\ bet_type \in {StrV(GuessNumber), StrV(GuessParity)}
                  => ret.results[p].is_win = (player_bets[p] = winning_result)
            /\ bet_type \notin {StrV(GuessNumber), StrV(GuessParity)}
                  => ret.results[p].is_win = FALSE
            /\ ret.results[p].name = players[p].name
            /\ ret.results[p].is_ai = players[p].is_ai

\* C12 witness: a guess-odd-or-even round has resolved with a winner and a
\* loser.
C12_Witness ==
    /\ Resolved
    /\ bet_type = StrV(GuessParity)
    /\ \E p, q \in DOMAIN ret.results :
          /\ ret.results[p].is_win /\ player_bets[p] = winning_result
          /\ ~ret.results[q].is_win /\ player_bets[q] # winning_result

\* C13: process_bet in status PLAYING with an id that is not enrolled raises
\* PlayerNotInGameError and records no bet; process_bet in status WAITING or
\* ENDED raises GameNotPlayingError for every id, enrolled or not, with or
\* without a recorded bet, and changes nothing.
C13_BetRefusals ==
    [][last'.op = "process_bet"
          => /\ status # "PLAYING"
                  => (last'.error = "GameNotPlayingError" /\ state' = state)
             /\ (status = "PLAYING" /\ last'.player_id \notin DOMAIN players)
                  => (last'.error = "PlayerNotInGameError"
                        /\ player_bets' = player_bets)]_vars

\* C13 witness: after the round ended, a bet by an id that is not enrolled
\* has been refused with GameNotPlayingError (the status check came first).
C13_Witness ==
    /\ status = "ENDED"
    /\ last.op = "process_bet" /\ last.error = "GameNotPlayingError"
    /\ last.player_id \notin DOMAIN players

\* C14: once start_game has succeeded, winning_result is in the outcome set
\* of the bet type: for guess-the-number an integer w with min <= w <= max,
\* so that with min = max = 1 a bet of 1 wins at resolution; for
\* guess-odd-or-even one of "odd" and "even", and from every state in which
\* the round can start, a start that draws "odd" and a start that draws
\* "even" are both possible.
C14_WinningResultInOutcomeSet ==
    /\ (status # "WAITING" /\ bet_type = StrV(GuessNumber))
          => /\ winning_result.kind = "int"
             /\ bet_content["min"] <= winning_result.n
             /\ winning_result.n <= bet_content["max"]
    /\ (status # "WAITING" /\ bet_type = StrV(GuessParity))
          => winning_result \in {StrV("odd"), StrV("even")}
    /\ (Resolved /\ bet_type = StrV(GuessNumber)
            /\ bet_content["min"] = 1 /\ bet_content["max"] = 1)
          => \A p \in DOMAIN ret.results :
                 player_bets[p] = IntV(1) => ret.results[p].is_win
    /\ (status = "WAITING" /\ NumPlayers >= MIN_PLAYERS)
          => /\ ENABLED (start_game(GuessParity, EmptyDict)
                            /\ winning_result' = StrV("odd"))
             /\ ENABLED (start_game(GuessParity, EmptyDict)
                            /\ winning_result' = StrV("even"))

\* C14 witness: a guess-the-number round started with min = max = 1 has
\* resolved and a player who bet 1 has won.
C14_Witness ==
    /\ Resolved
    /\ bet_type = StrV(GuessNumber)
    /\ bet_content["min"] = 1 /\ bet_content["max"] = 1
    /\ winning_result = IntV(1)
    /\ \E p \in DOMAIN ret.results :
          player_bets[p] = IntV(1) /\ ret.results[p].is_win

\* C15: a PLAYING round leaves PLAYING only by the step that records the
\* last missing bet, so the status is PLAYING whenever some enrolled player
\* of a started round has no recorded bet; and when every player's
\* process_bet calls keep being made, a PLAYING round reaches ENDED.
C15_NoEarlyEndAndEventualEnd ==
    /\ [][status = "PLAYING"
             => \/ status' = "PLAYING" /\ DOMAIN player_bets' # DOMAIN players'
                \/ /\ status' = "ENDED"
                   /\ last'.op = "process_bet"
                   /\ DOMAIN player_bets' = DOMAIN players'
                   /\ DOMAIN player_bets # DOMAIN players]_vars
    /\ [](status # "WAITING" /\ DOMAIN player_bets # DOMAIN players
            => status = "PLAYING")
    /\ (status = "PLAYING") ~> (status = "ENDED")

\* C15 witness: a start_game attempt has been refused while the round is
\* PLAYING and exactly one enrolled player has not bet yet.
C15_Witness ==
    /\ status = "PLAYING"
    /\ NumBets + 1 = NumPlayers
    /\ last.op = "start_game" /\ last.error # NoError

\* the last call failed one of the documented preconditions of its
\* operation (wrong status, too few players, unknown player, second bet);
\* a failed call of this kind leaves the state as it was
DocumentedFailure ==
    /\ last.error # NoError
    /\ ~(last.op = "start_game" /\ status = "WAITING"
            /\ NumPlayers >= MIN_PLAYERS)

\* C16: build_error_message renders a GameError as the operation-failed
\* prefix followed by the error's message, and any other exception as the
\* internal-error prefix, the fixed text and the type name only; and every
\* error raised by the engine for a documented precondition failure gets
\* the operation-failed prefix.
C16_ErrorRendering ==
    shown.by = "build_error_message"
        => /\ last.error \in GameErrorKinds
                 => shown.out = <<OperationFailedPrefix>> \o ErrorText(last, status)
           /\ last.error \notin GameErrorKinds
                 => shown.out = <<InternalErrorPrefix, InternalErrorText, last.error>>
           /\ DocumentedFailure => Head(shown.out) = OperationFailedPrefix

\* C17: in status ENDED every add_player, start_game and process_bet call
\* raises and leaves every field of the state as it was; players changes
\* only in steps taken in status WAITING and player_bets only in steps
\* taken in status PLAYING.
C17_EndedIsReadOnly ==
    [][/\ status = "ENDED" => (last'.error # NoError /\ state' = state)
       /\ players' # players => status = "WAITING"
       /\ player_bets' # player_bets => status = "PLAYING"]_vars

\* C17 witness: a start_game call on an ENDED game has been refused.
C17_Witness ==
    /\ status = "ENDED"
    /\ last.op = "start_game" /\ last.error # NoError

\* C18: build_bet_result_messages, given the results returned at
\* resolution, builds one message per player, whose last segment says
\* "guessed right" exactly when the player's is_win is true and "guessed
\* wrong" exactly when it is false.
C18_ResultMessagesFollowIsWin ==
    shown.by = "build_bet_result_messages"
        => /\ DOMAIN shown.out = DOMAIN ret.results
           /\ \A p \in DOMAIN ret.results :
                  shown.out[p][Len(shown.out[p])] =
                      Plain(<<" ", IF ret.results[p].is_win THEN "guessed right"
                                                           ELSE "guessed wrong",
                              "!">>)

\* C19: build_game_status_message, given the engine's state, renders the
\* "waiting for bets" header with the player count and list and no bet-type
\* details when the status is WAITING, and the "game over" header followed
\* by the bet-type details when the status is PLAYING or ENDED.
C19_StatusMessageTellsWaiting ==
    shown.by = "build_game_status_message"
        => IF status = "WAITING"
           THEN /\ shown.out[1].text[2] = "waiting for bets"
                /\ Len(shown.out) = 1
                /\ shown.out[1].text[3] = "players ("
                /\ shown.out[1].text[4] = ToString(NumPlayers)
           ELSE /\ shown.out[1].text[2] = "game over"
                /\ shown.out[1].text[3] = "bet type: "
                /\ shown.out[1].text[4] = FormatValue(bet_type)

\* C20: start_game with a bet_type that is neither recognised tag, in status
\* WAITING with at least MIN_PLAYERS players, succeeds and leaves the game
\* PLAYING with winning_result unset; in such a game the bet that completes
\* the round (and no earlier one) ends it, winning_result is still unset,
\* and is_win is false for every player whatever was bet.
C20_UnknownTypeNobodyWins ==
    [][/\ (/\ last'.op = "start_game"
           /\ bet_type' = StrV(OtherType)
           /\ status = "WAITING"
           /\ NumPlayers >= MIN_PLAYERS)
          => /\ last'.error = NoError
             /\ status' = "PLAYING"
             /\ winning_result' = NoneV
       /\ (/\ last'.op = "process_bet"
           /\ last'.error = NoError
           /\ bet_type = StrV(OtherType))
          => /\ ret'.game_ended = (DOMAIN player_bets' = DOMAIN players)
             /\ ret'.game_ended
                   => /\ status' = "ENDED"
                      /\ winning_result' = NoneV
                      /\ DOMAIN ret'.results = DOMAIN players
                      /\ \A p \in DOMAIN ret'.results :
                             ret'.results[p].is_win = FALSE]_vars

\* C20 witness: a round of an unrecognised bet type has resolved, one player
\* bet the unset winning_result itself and still did not win.
C20_Witness ==
    /\ Resolved
    /\ status = "ENDED"
    /\ bet_type = StrV(OtherType)
    /\ winning_result = NoneV
    /\ \E p, q \in DOMAIN ret.results :
          /\ player_bets[p] = winning_result /\ ~ret.results[p].is_win
          /\ player_bets[q] # winning_result /\ ~ret.results[q].is_win

====
